---------------------------- MODULE Spec2Model ----------------------------
(***************************************************************************)
(* CLTV prediction script (cltv_prediction.py) as a state machine.         *)
(*                                                                         *)
(* The script is one batch run over in-memory tables.  Its statements are  *)
(* the actions; pc is the statement about to run.  The stages of the run   *)
(* are modelled each with its own specification:                           *)
(*   Spec        data preparation            (lines 52-67)                 *)
(*   SpecFilters the three cleaning filters taken in any order             *)
(*   SpecAgg     the lifetime data structure (lines 81-99)                 *)
(*   SpecJoin    CLTV output, merge and segmentation (lines 157-179)       *)
(*                                                                         *)
(* Numbers: Quantity and Price are floats in the script.  They are held    *)
(* as fixed-point integers with Scale units per 1, which makes the linear  *)
(* interpolation of quantile(0.25/0.75) and the factor 1.5 exact.          *)
(***************************************************************************)
EXTENDS Integers, Sequences, FiniteSets, TLC

VARIABLES
    pc,          \* the statement about to run
    df,          \* the transaction table (sequence of rows)
    raw,         \* ghost: the table as read (line 43)
    pre,         \* ghost: df as it was when replace_with_thresholds was last entered
    applied,     \* SpecFilters only: the filters applied so far, in order
    cltv_df,     \* the per-customer feature table (sequence of rows, key CustomerID)
    cltv,        \* the CLTV output of the model (sequence of rows)
    cltv_final   \* the merged report

vars == <<pc, df, raw, pre, applied, cltv_df, cltv, cltv_final>>

---------------------------------------------------------------------------
(* Values *)

\* Fixed-point denominator of the float columns.
Scale == 8

\* pandas NaN / missing value.
NA == -1000

\* Invoice ids are text: sequences of characters.
Contains(s, ch) == \E i \in 1..Len(s) : s[i] = ch

\* Series.str.contains("C", na=False), line 55
IsCancellation(r) == Contains(r.Invoice, "C")

Columns == {"Customer", "InvoiceDate", "Quantity", "Price"}

\* A row has a missing field (Invoice is text and never missing here).
HasNA(r) == \E c \in Columns : r[c] = NA

\* Comparison of a column with a scalar: NaN compares False.
Gt(v, c) == v # NA /\ v > c

---------------------------------------------------------------------------
(* Sorting and quantiles *)

RECURSIVE Insert(_, _)
Insert(x, s) ==
    IF s = <<>> THEN <<x>>
    ELSE IF x <= Head(s) THEN <<x>> \o s
    ELSE <<Head(s)>> \o Insert(x, Tail(s))

RECURSIVE Sort(_)
Sort(s) == IF s = <<>> THEN <<>> ELSE Insert(Head(s), Sort(Tail(s)))

\* The column `variable` of table d, as a sequence.
Column(d, variable) == [i \in 1..Len(d) |-> d[i][variable]]

NotNA(v) == v # NA

\* Series.quantile(k/4), linear interpolation over the non-missing values;
\* NaN for an empty column.
Quantile(col, k) ==
    LET v == Sort(SelectSeq(col, NotNA))
        n == Len(v)
        pos4 == (n - 1) * k
        lo == pos4 \div 4
        r == pos4 % 4
    IN  IF n = 0 THEN NA
        ELSE IF r = 0 THEN v[lo + 1]
        ELSE v[lo + 1] + ((v[lo + 2] - v[lo + 1]) * r) \div 4

\* outlier_thresholds, lines 26-32: <<low_limit, up_limit>>
outlier_thresholds(dataframe, variable) ==
    LET quartile1 == Quantile(Column(dataframe, variable), 1)
        quartile3 == Quantile(Column(dataframe, variable), 3)
        interquantile_range == quartile3 - quartile1
        up_limit == quartile3 + (3 * interquantile_range) \div 2
        low_limit == quartile1 - (3 * interquantile_range) \div 2
    IN  IF quartile1 = NA THEN <<NA, NA>> ELSE <<low_limit, up_limit>>

\* A seeded fault: the lower clamp (commented out on line 36) instead of the upper.
replace_low_side(dataframe, variable) ==
    LET low_limit == outlier_thresholds(dataframe, variable)[1]
    IN  [i \in 1..Len(dataframe) |->
            IF low_limit # NA /\ dataframe[i][variable] # NA
               /\ dataframe[i][variable] < low_limit
            THEN [dataframe[i] EXCEPT ![variable] = low_limit]
            ELSE dataframe[i]]

\* replace_with_thresholds, lines 34-37: the table after the in-place update
replace_with_thresholds(dataframe, variable) ==
    LET up_limit == outlier_thresholds(dataframe, variable)[2]
    IN  [i \in 1..Len(dataframe) |->
            IF up_limit # NA /\ Gt(dataframe[i][variable], up_limit)
            THEN [dataframe[i] EXCEPT ![variable] = up_limit]
            ELSE dataframe[i]]

---------------------------------------------------------------------------
(* Cleaning filters *)

\* df.dropna(), line 52
DropNa(d) == LET Keep(r) == ~HasNA(r) IN SelectSeq(d, Keep)

\* A seeded fault: str.contains(..., na=False) without the negation.
KeepOnlyCancelled(d) == SelectSeq(d, IsCancellation)

\* df[~df["Invoice"].str.contains("C", na=False)], line 55
DropCancelled(d) == LET Keep(r) == ~IsCancellation(r) IN SelectSeq(d, Keep)

\* A seeded fault: >= 0 instead of > 0.
KeepNonNegative(d, variable) == LET Keep(r) == Gt(r[variable], -1) IN SelectSeq(d, Keep)

\* df[df[variable] > 0], lines 58 and 59
KeepPositive(d, variable) == LET Keep(r) == Gt(r[variable], 0) IN SelectSeq(d, Keep)

\* df["TotalPrice"] = df["Quantity"] * df["Price"], line 67
\* (units of 1/Scale^2)
WithTotalPrice(d) ==
    [i \in 1..Len(d) |->
        [Invoice |-> d[i].Invoice, Customer |-> d[i].Customer,
         InvoiceDate |-> d[i].InvoiceDate, Quantity |-> d[i].Quantity,
         Price |-> d[i].Price, TotalPrice |-> d[i].Quantity * d[i].Price]]

---------------------------------------------------------------------------
(* Stage 1: preparing data, lines 52-67 *)

\* Bound: rows of a raw log.
MaxRows == 4

\* The rows a raw log is drawn from: sound rows with a usual and an extreme
\* quantity and price, and one row per defect the cleaning removes.
Row(inv, cust, q, p) ==
    [Invoice |-> inv, Customer |-> cust, InvoiceDate |-> 0,
     Quantity |-> q, Price |-> p]

SoundRows ==
    { Row(<<"5">>, 1, 1 * Scale, 2 * Scale),
      Row(<<"5">>, 1, 10 * Scale, 2 * Scale),
      Row(<<"6">>, 1, 1 * Scale, 7 * Scale) }

DefectRows ==
    { Row(<<"5">>, NA, 10 * Scale, 2 * Scale),        \* missing customer id
      Row(<<"C", "5">>, 1, 10 * Scale, 7 * Scale),    \* cancellation
      Row(<<"5">>, 1, 0, 2 * Scale),                 \* zero quantity
      Row(<<"5">>, 1, 10 * Scale, 0),                 \* zero price
      Row(<<"C", "6">>, NA, (-10) * Scale, 7 * Scale) } \* a returned item

RawRows == SoundRows \cup DefectRows

SeqsUpTo(S, n) == UNION { [1..k -> S] : k \in 0..n }

\* A seeded fault: the clamps run before the cancellations are dropped.
ClampEarlyOrder(p) ==
    CASE p = "dropna" -> "clampQ"
      [] p = "clampQ" -> "clampP"
      [] p = "clampP" -> "cancel"
      [] p = "cancel" -> "qty"
      [] p = "qty"    -> "price"
      [] p = "price"  -> "total"
      [] p = "total"  -> "prepared"
      [] OTHER -> "prepared"

\* The order of the statements of lines 52-67.
After(p) ==
    CASE p = "dropna" -> "cancel"
      [] p = "cancel" -> "qty"
      [] p = "qty"    -> "price"
      [] p = "price"  -> "clampQ"
      [] p = "clampQ" -> "clampP"
      [] p = "clampP" -> "total"
      [] p = "total"  -> "prepared"
      [] OTHER -> "prepared"

\* The first statement of the preparation, line 52.
First == "dropna"

Idle == /\ applied = <<>>
        /\ cltv_df = <<>>
        /\ cltv = <<>>
        /\ cltv_final = <<>>

Init ==
    /\ raw \in SeqsUpTo(RawRows, MaxRows)
    /\ df = raw
    /\ pre = <<>>
    /\ pc = First
    /\ Idle

Step(p, d) ==
    /\ pc = p
    /\ df' = d
    /\ pc' = After(p)
    /\ UNCHANGED <<raw, applied, cltv_df, cltv, cltv_final>>

\* line 52
StmtDropNa == Step("dropna", DropNa(df)) /\ UNCHANGED pre

\* line 55
StmtDropCancelled == Step("cancel", DropCancelled(df)) /\ UNCHANGED pre

\* line 58
StmtPositiveQuantity == Step("qty", KeepPositive(df, "Quantity")) /\ UNCHANGED pre

\* line 59
StmtPositivePrice == Step("price", KeepPositive(df, "Price")) /\ UNCHANGED pre

\* line 63
StmtClampQuantity ==
    Step("clampQ", replace_with_thresholds(df, "Quantity")) /\ pre' = df

\* line 64
StmtClampPrice ==
    Step("clampP", replace_with_thresholds(df, "Price")) /\ pre' = df

\* line 67
StmtTotalPrice == Step("total", WithTotalPrice(df)) /\ UNCHANGED pre

Next ==
    \/ StmtDropNa
    \/ StmtDropCancelled
    \/ StmtPositiveQuantity
    \/ StmtPositivePrice
    \/ StmtClampQuantity
    \/ StmtClampPrice
    \/ StmtTotalPrice

Spec == Init /\ [][Next]_vars


---------------------------------------------------------------------------
(* Claims about the preparation (Spec) *)

UpLimit(d, variable) == outlier_thresholds(d, variable)[2]

Min(a, b) == IF a <= b THEN a ELSE b

\* C1: after replace_with_thresholds(table, column) returns, no value of the
\* column exceeds quartile3 + 1.5 * (quartile3 - quartile1), the quartiles
\* being those of the column before the clamp.
C1_NoValueAboveUpLimit ==
    /\ pc = "clampP" =>
          \A i \in 1..Len(df) : df[i].Quantity <= UpLimit(pre, "Quantity")
    /\ pc = "total" =>
          \A i \in 1..Len(df) : df[i].Price <= UpLimit(pre, "Price")

\* A quantity above the limit was lowered to the limit.
C1_Witness ==
    /\ pc = "clampP"
    /\ \E i \in 1..Len(df) :
          /\ pre[i].Quantity > UpLimit(pre, "Quantity")
          /\ df[i].Quantity = UpLimit(pre, "Quantity")
          /\ df[i].Quantity % Scale # 0

\* C2: every row that remains after the cleaning steps, and still after the
\* two clamps, has quantity > 0, price > 0, no missing field and an invoice
\* id without the cancellation marker.
C2_CleanRows ==
    pc \in {"clampQ", "clampP", "total", "prepared"} =>
        \A i \in 1..Len(df) :
            /\ df[i].Quantity > 0
            /\ df[i].Price > 0
            /\ \A c \in Columns : df[i][c] # NA
            /\ \A k \in 1..Len(df[i].Invoice) : df[i].Invoice[k] # "C"

\* Rows with a missing field, a zero quantity and a zero price were supplied
\* and dropped, and a sound row remains at the end of the preparation.
C2_Witness ==
    /\ pc = "prepared"
    /\ Len(df) = 1
    /\ \E i \in 1..Len(raw) : raw[i].Customer = NA
    /\ \E i \in 1..Len(raw) : raw[i].Quantity = 0
    /\ \E i \in 1..Len(raw) : raw[i].Price = 0

\* The rows of the raw log that pass the three cleaning predicates.
PassesAll(r) ==
    /\ \A c \in Columns : r[c] # NA
    /\ \A k \in 1..Len(r.Invoice) : r.Invoice[k] # "C"
    /\ r.Quantity > 0
    /\ r.Price > 0

CleanedRows(d) == SelectSeq(d, PassesAll)

\* C9: the steps run in the prescribed order, so both clamp thresholds are
\* computed over already-cleaned rows only, and each row's total is its
\* clamped quantity times its clamped price.
C9_PrescribedOrder ==
    /\ pc = "clampP" => pre = CleanedRows(raw)
    /\ pc = "total" =>
          /\ Len(pre) = Len(CleanedRows(raw))
          /\ \A i \in 1..Len(pre) :
                /\ pre[i].Price = CleanedRows(raw)[i].Price
                /\ pre[i].Invoice = CleanedRows(raw)[i].Invoice
    /\ pc = "prepared" =>
          /\ Len(df) = Len(CleanedRows(raw))
          /\ \A i \in 1..Len(df) :
                /\ df[i].Quantity =
                      Min(CleanedRows(raw)[i].Quantity,
                          UpLimit(CleanedRows(raw), "Quantity"))
                /\ df[i].Price =
                      Min(CleanedRows(raw)[i].Price,
                          UpLimit(CleanedRows(raw), "Price"))
                /\ df[i].TotalPrice = df[i].Quantity * df[i].Price

\* A cancellation that would have moved the quantity threshold was dropped
\* before the clamp, and the totals are derived.
C9_Witness ==
    /\ pc = "prepared"
    /\ Len(df) >= 2
    /\ UpLimit(DropNa(raw), "Quantity") # UpLimit(CleanedRows(raw), "Quantity")

---------------------------------------------------------------------------
(* The cleaning filters in any order (SpecFilters) *)

\* Bound: rows of a raw log in SpecFilters.
MaxFilterRows == 2

\* Every combination of sound and defective fields.
FilterRows ==
    { [Invoice |-> inv, Customer |-> cust, InvoiceDate |-> 0,
       Quantity |-> q, Price |-> p] :
        inv \in {<<"5">>, <<"C", "5">>}, cust \in {NA, 1},
        q \in {0, Scale}, p \in {0, Scale} }

FilterNames == {"dropna", "cancel", "qty", "price"}

InitFilters ==
    /\ raw \in SeqsUpTo(FilterRows, MaxFilterRows)
    /\ df = raw
    /\ pre = <<>>
    /\ pc = "filters"
    /\ Idle

Done(f) == \E i \in 1..Len(applied) : applied[i] = f

Apply(f, d) ==
    /\ pc = "filters"
    /\ ~Done(f)
    /\ df' = d
    /\ applied' = Append(applied, f)
    /\ UNCHANGED <<pc, raw, pre, cltv_df, cltv, cltv_final>>

ApplyDropNa == Apply("dropna", DropNa(df))

ApplyDropCancelled == Apply("cancel", DropCancelled(df))

ApplyPositiveQuantity == Apply("qty", KeepPositive(df, "Quantity"))

ApplyPositivePrice == Apply("price", KeepPositive(df, "Price"))

NextFilters ==
    \/ ApplyDropNa
    \/ ApplyDropCancelled
    \/ ApplyPositiveQuantity
    \/ ApplyPositivePrice

SpecFilters == InitFilters /\ [][NextFilters]_vars

\* C10: the cleaning filters commute: in any order they yield exactly the
\* rows that pass all three predicates.
C10_FiltersCommute ==
    (pc = "filters" /\ Len(applied) = Cardinality(FilterNames)) =>
        df = CleanedRows(raw)

\* The filters ran in an order other than the script's, on a log in which
\* each of them had a row to drop.
C10_Witness ==
    /\ pc = "filters"
    /\ applied = <<"price", "qty", "cancel", "dropna">>
    /\ Len(df) = 1
    /\ Len(raw) = 2
    /\ DropNa(raw) = raw


---------------------------------------------------------------------------
(* Stage 2: the lifetime data structure, lines 69-99 *)

\* Timestamps are counted in ticks; a day has TicksPerDay of them, so that
\* timedelta.days (a floor) is not the identity.
TicksPerDay == 2

\* today_date, line 69, in ticks.
TodayDate == 12

\* recency / 7, T / 7: days per week, lines 98-99.
DaysPerWeek == 7

\* timedelta.days
Days(ticks) == ticks \div TicksPerDay

\* Floats that come out of a division are kept as exact fractions.
Whole(n) == [num |-> n, den |-> 1]

DivideBy(x, k) == [num |-> x.num, den |-> x.den * k]

\* x > k for a fraction x with a positive denominator
FracGt(x, k) == x.num > k * x.den

\* x >= y for fractions with positive denominators
FracGe(x, y) == x.num * y.den >= y.num * x.den

\* The rows of one group of groupby("Customer ID").
Group(d, c) == LET Mine(r) == r.Customer = c IN SelectSeq(d, Mine)

\* The group keys in ascending order, as groupby yields them.
GroupKeys(d) ==
    LET keys == { d[i].Customer : i \in 1..Len(d) }
        Rank(c) == Cardinality({ k \in keys : k < c }) + 1
    IN  [n \in 1..Cardinality(keys) |-> CHOOSE c \in keys : Rank(c) = n]

MaxOf(S) == CHOOSE x \in S : \A y \in S : y <= x

MinOf(S) == CHOOSE x \in S : \A y \in S : x <= y

Dates(g) == { g[i].InvoiceDate : i \in 1..Len(g) }

RECURSIVE SumTotalPrice(_)
SumTotalPrice(g) ==
    IF g = <<>> THEN 0 ELSE Head(g).TotalPrice + SumTotalPrice(Tail(g))

\* A seeded fault: Invoice.count() instead of Invoice.nunique().
CountInvoices(g) == Len(g)

\* Invoice.nunique(), line 83
NUnique(g) == Cardinality({ g[i].Invoice : i \in 1..Len(g) })

\* df.groupby("Customer ID").agg({...}) and the column names, lines 81-89
Aggregate(d) ==
    LET keys == GroupKeys(d)
    IN  [n \in 1..Len(keys) |->
            LET g == Group(d, keys[n])
            IN  [Customer  |-> keys[n],
                 recency   |-> Whole(Days(MaxOf(Dates(g)) - MinOf(Dates(g)))),
                 T         |-> Whole(Days(TodayDate - MinOf(Dates(g)))),
                 frequency |-> NUnique(g),
                 monetary  |-> Whole(SumTotalPrice(g))]]

\* A seeded fault: recency >= 1 instead of > 1.
KeepRecencyFromOne(t) == LET Keep(r) == FracGt(r.recency, 0) IN SelectSeq(t, Keep)

\* cltv_df[cltv_df["recency"] > 1], line 90
KeepRecent(t) == LET Keep(r) == FracGt(r.recency, 1) IN SelectSeq(t, Keep)

\* cltv_df["monetary"] / cltv_df["frequency"], line 92
AverageMonetary(t) ==
    [i \in 1..Len(t) |->
        [t[i] EXCEPT !.monetary = DivideBy(t[i].monetary, t[i].frequency)]]

\* A seeded fault: frequency >= 1 instead of > 1.
KeepAnyFrequency(t) == LET Keep(r) == r.frequency >= 1 IN SelectSeq(t, Keep)

\* cltv_df[cltv_df["frequency"] > 1], line 96
KeepRepeat(t) == LET Keep(r) == r.frequency > 1 IN SelectSeq(t, Keep)

\* cltv_df[column] / 7, lines 98 and 99
ToWeeks(t, column) ==
    [i \in 1..Len(t) |->
        [t[i] EXCEPT ![column] = DivideBy(t[i][column], DaysPerWeek)]]

\* Bound: rows of a prepared log in SpecAgg.
MaxAggRows == 3

\* Rows of a prepared log: positive quantity and price, nothing missing,
\* no cancellation, TotalPrice derived.
AggDates == {0, 3, 10, 14}

AggRows ==
    { [Invoice |-> item[1], Customer |-> cust, InvoiceDate |-> date,
       Quantity |-> item[2] * Scale, Price |-> Scale,
       TotalPrice |-> item[2] * Scale * Scale] :
        item \in {<<<<"5">>, 1>>, <<<<"6">>, 2>>},
        cust \in {1, 2}, date \in AggDates }

InitAgg ==
    /\ df \in SeqsUpTo(AggRows, MaxAggRows)
    /\ raw = <<>>
    /\ pre = <<>>
    /\ pc = "agg"
    /\ Idle

AggStep(p, q, t) ==
    /\ pc = p
    /\ pc' = q
    /\ cltv_df' = t
    /\ UNCHANGED <<df, raw, pre, applied, cltv, cltv_final>>

\* lines 81-89
StmtAggregate == AggStep("agg", "recency", Aggregate(df))

\* line 90
StmtFilterRecency == AggStep("recency", "monetary", KeepRecent(cltv_df))

\* line 92
StmtAverageMonetary == AggStep("monetary", "frequency", AverageMonetary(cltv_df))

\* line 96
StmtFilterFrequency == AggStep("frequency", "weeksR", KeepRepeat(cltv_df))

\* line 98
StmtRecencyToWeeks == AggStep("weeksR", "weeksT", ToWeeks(cltv_df, "recency"))

\* line 99
StmtTToWeeks == AggStep("weeksT", "features", ToWeeks(cltv_df, "T"))

NextAgg ==
    \/ StmtAggregate
    \/ StmtFilterRecency
    \/ StmtAverageMonetary
    \/ StmtFilterFrequency
    \/ StmtRecencyToWeeks
    \/ StmtTToWeeks

SpecAgg == InitAgg /\ [][NextAgg]_vars

---------------------------------------------------------------------------
(* Claims about the lifetime data structure (SpecAgg) *)

\* The distinct invoice ids among a customer's prepared rows.
InvoicesOf(c) == { df[i].Invoice : i \in { j \in 1..Len(df) : df[j].Customer = c } }

RECURSIVE TotalOf(_, _)
TotalOf(c, n) ==
    IF n = 0 THEN 0
    ELSE (IF df[n].Customer = c THEN df[n].TotalPrice ELSE 0) + TotalOf(c, n - 1)

RowCountOf(c) == Cardinality({ j \in 1..Len(df) : df[j].Customer = c })

\* C3: for every customer of the feature table, monetary equals the sum of
\* total over the customer's rows divided by the number of distinct invoice
\* ids of the customer, not by the number of rows.
C3_MonetaryPerInvoice ==
    pc \in {"frequency", "weeksR", "weeksT", "features"} =>
        \A i \in 1..Len(cltv_df) :
            LET c == cltv_df[i].Customer
                m == cltv_df[i].monetary
            IN  m.num * Cardinality(InvoicesOf(c)) = TotalOf(c, Len(df)) * m.den

\* A customer with more rows than invoices is in the final feature table.
C3_Witness ==
    /\ pc = "features"
    /\ \E i \in 1..Len(cltv_df) :
          /\ RowCountOf(cltv_df[i].Customer) = 3
          /\ cltv_df[i].frequency = 2
          /\ cltv_df[i].monetary.den = 2

\* C4: every record of the final feature table has frequency > 1 and
\* recency > 0.
C4_FrequencyAndRecency ==
    pc = "features" =>
        \A i \in 1..Len(cltv_df) :
            /\ cltv_df[i].frequency > 1
            /\ FracGt(cltv_df[i].recency, 0)

\* One customer is kept and another one was filtered out.
C4_Witness ==
    /\ pc = "features"
    /\ Len(cltv_df) = 1
    /\ Cardinality({ df[i].Customer : i \in 1..Len(df) }) = 2

\* C5 as stated: every customer of the final feature table has a recency of
\* more than 1 week.
C5_RecencyAboveOneWeek ==
    pc = "features" =>
        \A i \in 1..Len(cltv_df) : FracGt(cltv_df[i].recency, 1)

\* C5 as amended: the recency filter is applied to the day count, before
\* the conversion, so every customer of the final feature table has a
\* recency of more than 1 day, that is more than 1/7 week.
C5_RecencyAboveOneDay ==
    pc = "features" =>
        \A i \in 1..Len(cltv_df) :
            /\ cltv_df[i].recency.den = DaysPerWeek
            /\ cltv_df[i].recency.num > 1

\* A customer with a recency between one day and one week is in the final
\* feature table.
C5_Witness ==
    /\ pc = "features"
    /\ \E i \in 1..Len(cltv_df) :
          /\ cltv_df[i].recency.num = 2
          /\ cltv_df[i].recency.den = DaysPerWeek

\* C6: for every customer of the feature table T >= recency and T >= 0,
\* whatever transaction log is supplied.
C6_AgeCoversRecency ==
    pc = "features" =>
        \A i \in 1..Len(cltv_df) :
            /\ FracGe(cltv_df[i].T, cltv_df[i].recency)
            /\ cltv_df[i].T.num >= 0


---------------------------------------------------------------------------
(* Stage 3: CLTV output, merge and segments, lines 157-179 *)

\* Bound: customers of a feature table in SpecJoin.
MaxCustomers == 4

\* Bound: the clv values the model may return are 0..MaxClv (times Scale).
MaxClv == 4

\* A record of the final feature table: frequency > 1, recency > 1 day.
Feature(c) ==
    [Customer |-> c, recency |-> [num |-> 2 + c, den |-> DaysPerWeek],
     T |-> [num |-> 4 + c, den |-> DaysPerWeek], frequency |-> 2,
     monetary |-> [num |-> 3 * Scale * Scale, den |-> 2]]

\* The feature tables over a set of customers, keys ascending.
FeatureTable(S) ==
    LET Rank(c) == Cardinality({ k \in S : k < c }) + 1
    IN  [n \in 1..Cardinality(S) |-> Feature(CHOOSE c \in S : Rank(c) = n)]

InitJoin ==
    /\ cltv_df \in { FeatureTable(S) : S \in SUBSET (1..MaxCustomers) }
    /\ df = <<>>
    /\ raw = <<>>
    /\ pre = <<>>
    /\ applied = <<>>
    /\ cltv = <<>>
    /\ cltv_final = <<>>
    /\ pc = "cltv"

\* ggf.customer_lifetime_value(...), lines 157-165: a series named clv on the
\* index of the frequency column; the values are the fitted model's.
StmtCltv ==
    /\ pc = "cltv"
    /\ \E value \in [1..Len(cltv_df) -> { v * Scale : v \in 0..MaxClv }] :
          cltv' = [i \in 1..Len(cltv_df) |->
                      [index |-> cltv_df[i].Customer, clv |-> value[i]]]
    /\ pc' = "reset"
    /\ UNCHANGED <<df, raw, pre, applied, cltv_df, cltv_final>>

\* cltv.reset_index(), line 168: the index becomes the column Customer and
\* the rows are numbered 0, 1, ... anew.
ResetIndex(s) ==
    [i \in 1..Len(s) |-> [index |-> i - 1, Customer |-> s[i].index, clv |-> s[i].clv]]

StmtResetIndex ==
    /\ pc = "reset"
    /\ cltv' = ResetIndex(cltv)
    /\ pc' = "merge"
    /\ UNCHANGED <<df, raw, pre, applied, cltv_df, cltv_final>>

WithClv(l, v) ==
    [Customer |-> l.Customer, recency |-> l.recency, T |-> l.T,
     frequency |-> l.frequency, monetary |-> l.monetary, clv |-> v]

RECURSIVE Concat(_)
Concat(ss) == IF ss = <<>> THEN <<>> ELSE Head(ss) \o Concat(Tail(ss))

\* A seeded fault: the join key of the right table is its row number.
MergeOnRowNumber(left, right) ==
    Concat([i \in 1..Len(left) |->
        LET Match(r) == r.index = left[i].Customer
            hits == SelectSeq(right, Match)
        IN  IF hits = <<>> THEN << WithClv(left[i], NA) >>
            ELSE [j \in 1..Len(hits) |-> WithClv(left[i], hits[j].clv)]])

\* left.merge(right, on="Customer ID", how="left"), line 171: the left rows
\* in their order, each once per right row of the same key, and once with a
\* missing clv when there is none.
MergeLeft(left, right) ==
    Concat([i \in 1..Len(left) |->
        LET Match(r) == r.Customer = left[i].Customer
            hits == SelectSeq(right, Match)
        IN  IF hits = <<>> THEN << WithClv(left[i], NA) >>
            ELSE [j \in 1..Len(hits) |-> WithClv(left[i], hits[j].clv)]])

StmtMerge ==
    /\ pc = "merge"
    /\ cltv_final' = MergeLeft(cltv_df, cltv)
    /\ pc' = "segment"
    /\ UNCHANGED <<df, raw, pre, applied, cltv_df, cltv>>

\* A seeded fault: the labels listed from high to low.
LabelsHighToLow == <<"A", "B", "C", "D">>

\* labels=["D", "C", "B", "A"], line 179
Labels == <<"D", "C", "B", "A">>

\* The bin edges of qcut(x, 4): the quantiles 0, 0.25, 0.5, 0.75 and 1.
BinEdges(col) == [k \in 1..5 |-> Quantile(col, k - 1)]

\* bins.searchsorted(x, side="left"), with the lowest value put in bin 1.
BinOf(x, bins) ==
    IF x = bins[1] THEN 1
    ELSE Cardinality({ k \in 1..5 : bins[k] < x })

\* qcut raises ("Bin edges must be unique") when two bin edges coincide.
DuplicateEdges(t) ==
    LET bins == BinEdges(Column(t, "clv"))
    IN  \E j, k \in 1..5 : j # k /\ bins[j] = bins[k]

\* pd.qcut(cltv_final["clv"], 4, labels=...), line 179: the segment of each
\* row; a missing clv has no segment.
Segments(t) ==
    LET bins == BinEdges(Column(t, "clv"))
    IN  [i \in 1..Len(t) |->
            IF t[i].clv = NA THEN "NaN" ELSE Labels[BinOf(t[i].clv, bins)]]

WithSegment(r, s) ==
    [Customer |-> r.Customer, recency |-> r.recency, T |-> r.T,
     frequency |-> r.frequency, monetary |-> r.monetary, clv |-> r.clv,
     segment |-> s]

\* line 179
StmtSegment ==
    /\ pc = "segment"
    /\ IF DuplicateEdges(cltv_final)
       THEN pc' = "error" /\ UNCHANGED cltv_final
       ELSE /\ pc' = "done"
            /\ cltv_final' = [i \in 1..Len(cltv_final) |->
                                 WithSegment(cltv_final[i], Segments(cltv_final)[i])]
    /\ UNCHANGED <<df, raw, pre, applied, cltv_df, cltv>>

NextJoin ==
    \/ StmtCltv
    \/ StmtResetIndex
    \/ StmtMerge
    \/ StmtSegment

SpecJoin == InitJoin /\ [][NextJoin]_vars

---------------------------------------------------------------------------
(* Claims about the merge and the segments (SpecJoin) *)

\* C7: the left join keeps every customer of the feature table: the report
\* has exactly one row per customer id of the feature table, each carrying
\* that customer's clv value.
C7_JoinKeepsEveryCustomer ==
    pc \in {"segment", "done", "error"} =>
        /\ Len(cltv_final) = Len(cltv_df)
        /\ \A i \in 1..Len(cltv_df) :
              /\ Cardinality({ j \in 1..Len(cltv_final) :
                                 cltv_final[j].Customer = cltv_df[i].Customer }) = 1
              /\ \E j \in 1..Len(cltv_final), k \in 1..Len(cltv) :
                    /\ cltv_final[j].Customer = cltv_df[i].Customer
                    /\ cltv[k].Customer = cltv_df[i].Customer
                    /\ cltv_final[j].clv = cltv[k].clv

\* Three customers with ids that are not their row numbers were joined,
\* with different clv values.
C7_Witness ==
    /\ pc = "segment"
    /\ Len(cltv_final) = 3
    /\ cltv_final[1].Customer = 2
    /\ cltv_final[1].clv # cltv_final[2].clv
    /\ cltv_final[2].clv # cltv_final[3].clv

LabelRank(label) == CHOOSE k \in 1..4 : <<"D", "C", "B", "A">>[k] = label

DistinctClv ==
    \A i, j \in 1..Len(cltv_final) :
        i # j => cltv_final[i].clv # cltv_final[j].clv

\* C8: a clv column of n pairwise distinct values, n divisible by 4, is cut
\* into four buckets of n/4 rows each, labelled D, C, B, A by increasing
\* value: every value of a higher bucket is above every value of a lower one.
C8_EqualQuartiles ==
    ( /\ pc \in {"done", "error"}
      /\ Len(cltv_final) > 0
      /\ Len(cltv_final) % 4 = 0
      /\ DistinctClv ) =>
        /\ pc = "done"
        /\ \A label \in {"D", "C", "B", "A"} :
              Cardinality({ i \in 1..Len(cltv_final) :
                              cltv_final[i].segment = label }) * 4
                  = Len(cltv_final)
        /\ \A i, j \in 1..Len(cltv_final) :
              LabelRank(cltv_final[i].segment) > LabelRank(cltv_final[j].segment)
                  => cltv_final[i].clv > cltv_final[j].clv

\* Four customers with distinct clv values, not in order, were segmented.
C8_Witness ==
    /\ pc = "done"
    /\ Len(cltv_final) = 4
    /\ DistinctClv
    /\ cltv_final[1].clv > cltv_final[2].clv
    /\ cltv_final[3].clv > cltv_final[4].clv
    /\ cltv_final[1].segment = "A"
    /\ cltv_final[4].segment = "C"

=============================================================================
